---- MODULE Spec2Model ----
(***************************************************************************)
(* Model of the course / section / enrollment manager.                     *)
(*                                                                         *)
(* These parts of the program are modelled, each with its own              *)
(* specification over the shared variables:                                *)
(*   SpecCatalog - the prerequisite table and CursoService                 *)
(*   SpecMat     - the in-memory Matricula / Aluno objects                 *)
(*   SpecEnroll  - the matricula table and MatriculaService                *)
(*   SpecAvaliar - the three status-derivation functions, as functions     *)
(*   SpecTurma   - a Turma object and the Matricula objects registered in  *)
(*                 it                                                      *)
(*   SpecTrancar - withdrawals, on objects and through the service         *)
(*   SpecCr      - the CR of a history, on the object and in the table     *)
(*   SpecChoque  - the two overlap checks on a pair of slot maps           *)
(*   SpecLimite  - the enrollment service under a configured per-period    *)
(*                 maximum                                                 *)
(*   SpecConcorrente - criar_matricula calls of two students interleaved   *)
(*   SpecHistorico - an Aluno object and the calls that change its history *)
(*   SpecRanking - Relatorio.ranking on a list of students                 *)
(*                                                                         *)
(* Grades are integers in tenths of a point (6.0 is 60), attendance is an  *)
(* integer percentage, times are minutes since midnight.  An optional      *)
(* value (Python None) is the empty tuple, a present value v is <<v>>.     *)
(***************************************************************************)
EXTENDS Integers, Sequences, FiniteSets, TLC

VARIABLES
    curso_prerequisito,  \* table curso_prerequisito: rows (curso, prerequisito) with multiplicity
    matricula,           \* table matricula: id -> row
    next_id,             \* AUTOINCREMENT counter of table matricula
    historico_aluno,     \* table historico_aluno: aluno -> sequence of rows
    mat,                 \* Matricula objects: object -> fields
    hist,                \* Aluno._historico of the Aluno object the Matricula objects share
    cr,                  \* Aluno._cr of that object, in hundredths
    aluno_cr,            \* table aluno, column cr, in hundredths
    pode_trancar,        \* Settings.pode_trancar(): now <= data_limite_trancamento
    av,                  \* inputs and outputs of the status-derivation functions
    obj_turma,           \* a Turma object: its vagas, status and _matriculas list
    choque,              \* two slot maps and the verdicts of the overlap checks on them
    settings,            \* Settings._config: the keys the enrollment service reads
    proc,                \* concurrent criar_matricula calls: caller -> position in the call
    rank,                \* a list of Aluno objects, top_n_alunos and what ranking returned
    last                 \* the last call made and what it returned or raised

vars == <<curso_prerequisito, matricula, next_id, historico_aluno, aluno_cr,
          mat, hist, cr, pode_trancar, av, obj_turma, choque, settings, proc, rank, last>>

None == <<>>
Some(v) == <<v>>

(***************************************************************************)
(* Bounds of the model.                                                    *)
(***************************************************************************)
MaxRows == 2          \* copies of one (curso, prerequisito) row the table may hold
MaxMatriculaId == 3   \* ids the matricula table hands out
MaxAlunosRanking == 3 \* students in the list given to ranking
MaxTopN == 2          \* largest top_n_alunos configured

(***************************************************************************)
(* Institutional settings (config/settings.py defaults).                   *)
(***************************************************************************)
nota_minima_aprovacao == 60
frequencia_minima == 75
max_turmas_por_aluno == 6
config_nota_minima == 60
config_frequencia_minima == 75

(***************************************************************************)
(* The catalog: table curso and the courses' workloads.                    *)
(***************************************************************************)
Cursos == {"INP", "POO", "BD"}
CursoInexistente == "XXX"
carga_horaria == [c \in Cursos |-> IF c = "BD" THEN 32 ELSE 64]

SITUACAO_CURSANDO == "CURSANDO"
SITUACAO_APROVADO == "APROVADO"
SITUACAO_REPROVADO_NOTA == "REPROVADO_POR_NOTA"
SITUACAO_REPROVADO_FREQUENCIA == "REPROVADO_POR_FREQUENCIA"
SITUACAO_TRANCADA == "TRANCADA"
SITUACAO_DESISTENTE == "DESISTENTE"

Situacoes == {SITUACAO_CURSANDO, SITUACAO_APROVADO, SITUACAO_REPROVADO_NOTA,
              SITUACAO_REPROVADO_FREQUENCIA, SITUACAO_TRANCADA, SITUACAO_DESISTENTE}

(***************************************************************************)
(* CursoRepository over table curso_prerequisito.                          *)
(***************************************************************************)
get_by_codigo(codigo) == codigo \in Cursos

\* SELECT prerequisito_codigo ... WHERE curso_codigo = ?  (as a set of codes)
get_prerequisitos(tab, codigo) ==
    {p \in Cursos : tab[<<codigo, p>>] > 0}

create_prerequisitos(tab, codigo, prereq) ==
    [tab EXCEPT ![<<codigo, prereq>>] = @ + 1]

repo_remover_prerequisito(tab, codigo, prereq) ==
    [tab EXCEPT ![<<codigo, prereq>>] = 0]

(***************************************************************************)
(* CursoService.                                                           *)
(***************************************************************************)
\* buscar_curso(codigo, incluir_prerequisitos): the prerequisitos of the
\* Curso object it builds
buscar_curso_prerequisitos(tab, codigo, incluir_prerequisitos) ==
    IF incluir_prerequisitos THEN get_prerequisitos(tab, codigo) ELSE {}

\* a check that looks for the new edge itself and not for the reverse one
MutVerificarCicloMesmaAresta(tab, curso_codigo, novo_prerequisito) ==
    novo_prerequisito \in get_prerequisitos(tab, curso_codigo)

\* _verificar_ciclo_prerequisitos: is curso_codigo a stored prerequisite of
\* novo_prerequisito
service_verificar_ciclo_prerequisitos(tab, curso_codigo, novo_prerequisito) ==
    curso_codigo \in get_prerequisitos(tab, novo_prerequisito)

\* what adicionar_prerequisito returns or raises
adicionar_prerequisito_result(tab, curso_codigo, prerequisito_codigo) ==
    IF ~get_by_codigo(curso_codigo) THEN "CursoNaoEncontrado"
    ELSE IF ~get_by_codigo(prerequisito_codigo) THEN "PrerequisitoNaoEncontrado"
    ELSE IF curso_codigo = prerequisito_codigo THEN "MesmoCurso"
    ELSE IF prerequisito_codigo \in buscar_curso_prerequisitos(tab, curso_codigo, FALSE)
         THEN "JaPrerequisito"
    ELSE IF service_verificar_ciclo_prerequisitos(tab, curso_codigo, prerequisito_codigo)
         THEN "Ciclo"
    ELSE "ok"

adicionar_prerequisito(curso_codigo, prerequisito_codigo) ==
    LET r == adicionar_prerequisito_result(curso_prerequisito, curso_codigo,
                                           prerequisito_codigo)
    IN  /\ r = "ok" => curso_prerequisito[<<curso_codigo, prerequisito_codigo>>] < MaxRows
        /\ curso_prerequisito' =
              IF r = "ok"
              THEN create_prerequisitos(curso_prerequisito, curso_codigo, prerequisito_codigo)
              ELSE curso_prerequisito
        /\ last' = [op |-> "adicionar_prerequisito",
                    args |-> <<curso_codigo, prerequisito_codigo>>, result |-> r]
        /\ UNCHANGED <<rank, proc, settings, choque, obj_turma, matricula, next_id, historico_aluno, aluno_cr, mat, hist, cr,
                       pode_trancar, av>>

remover_prerequisito_result(tab, curso_codigo, prerequisito_codigo) ==
    IF ~get_by_codigo(curso_codigo) THEN "CursoNaoEncontrado"
    ELSE IF prerequisito_codigo \notin buscar_curso_prerequisitos(tab, curso_codigo, TRUE)
         THEN "NaoEPrerequisito"
    ELSE "ok"

remover_prerequisito(curso_codigo, prerequisito_codigo) ==
    LET r == remover_prerequisito_result(curso_prerequisito, curso_codigo,
                                         prerequisito_codigo)
    IN  /\ curso_prerequisito' =
              IF r = "ok"
              THEN repo_remover_prerequisito(curso_prerequisito, curso_codigo,
                                             prerequisito_codigo)
              ELSE curso_prerequisito
        /\ last' = [op |-> "remover_prerequisito",
                    args |-> <<curso_codigo, prerequisito_codigo>>, result |-> r]
        /\ UNCHANGED <<rank, proc, settings, choque, obj_turma, matricula, next_id, historico_aluno, aluno_cr, mat, hist, cr,
                       pode_trancar, av>>

(***************************************************************************)
(* Status derivation: the three places that compute it.                    *)
(***************************************************************************)
\* the derivation with the two tests exchanged: the grade is tested first
MutSituacaoNotaPrimeiro(nota, frequencia) ==
    IF nota < nota_minima_aprovacao THEN SITUACAO_REPROVADO_NOTA
    ELSE IF frequencia < frequencia_minima THEN SITUACAO_REPROVADO_FREQUENCIA
    ELSE SITUACAO_APROVADO

\* Matricula._atualizar_situacao, the branch taken once both values are set
matricula_situacao(nota, frequencia) ==
    IF frequencia < frequencia_minima THEN SITUACAO_REPROVADO_FREQUENCIA
    ELSE IF nota < nota_minima_aprovacao THEN SITUACAO_REPROVADO_NOTA
    ELSE SITUACAO_APROVADO

\* RegraAprovacao.avaliar, with a ConfiguracaoSistema built from its defaults
avaliar(nota, frequencia) ==
    IF ~(0 <= nota /\ nota <= 100) THEN "ErroNota"
    ELSE IF ~(0 <= frequencia /\ frequencia <= 100) THEN "ErroFrequencia"
    ELSE IF frequencia < config_frequencia_minima THEN "REPROVADO_POR_FREQUENCIA"
    ELSE IF nota < config_nota_minima THEN "REPROVADO_POR_NOTA"
    ELSE "APROVADO"

\* MatriculaRepository.atualizar_nota_frequencia, the situacao it stores
repo_situacao(nota, frequencia) ==
    IF frequencia < frequencia_minima THEN "REPROVADO_POR_FREQUENCIA"
    ELSE IF nota < nota_minima_aprovacao THEN "REPROVADO_POR_NOTA"
    ELSE "APROVADO"

(***************************************************************************)
(* Aluno: history and CR.                                                  *)
(***************************************************************************)
RECURSIVE SomaPonderada(_), TotalCarga(_)
\* the filter of calcular_cr taking every failed entry, also by attendance
MutContaReprovadoFrequencia(registro) ==
    /\ registro.situacao \in {"APROVADO", "REPROVADO_POR_NOTA", "REPROVADO_POR_FREQUENCIA"}
    /\ registro.carga_horaria > 0

\* does calcular_cr take the entry into the mean
ContaNoCr(registro) ==
    /\ registro.situacao \in {"APROVADO", "REPROVADO_POR_NOTA"}
    /\ registro.carga_horaria > 0

SomaPonderada(h) ==
    IF h = <<>> THEN 0
    ELSE (IF ContaNoCr(Head(h)) THEN Head(h).nota * Head(h).carga_horaria ELSE 0)
         + SomaPonderada(Tail(h))

TotalCarga(h) ==
    IF h = <<>> THEN 0
    ELSE (IF ContaNoCr(Head(h)) THEN Head(h).carga_horaria ELSE 0)
         + TotalCarga(Tail(h))

\* round(n / d, 0) for n >= 0, d > 0, ties to the even neighbour
Round(n, d) ==
    LET q == n \div d
        r == n % d
    IN  IF 2 * r > d THEN q + 1
        ELSE IF 2 * r < d THEN q
        ELSE IF q % 2 = 0 THEN q ELSE q + 1

\* a CR that is added to the value the object already holds
MutCrAcumulado(h) ==
    cr + (IF TotalCarga(h) > 0 THEN Round(10 * SomaPonderada(h), TotalCarga(h)) ELSE 0)

\* Aluno.calcular_cr: the CR in hundredths (grades are in tenths)
calcular_cr(h) ==
    IF TotalCarga(h) > 0 THEN Round(10 * SomaPonderada(h), TotalCarga(h)) ELSE 0

situacoes_validas == {"APROVADO", "REPROVADO_POR_NOTA", "REPROVADO_POR_FREQUENCIA",
                      "CURSANDO", "TRANCADO", "DESISTENTE"}

CursoNoHistorico(h, codigo_curso) ==
    \E i \in 1..Len(h) : h[i].codigo_curso = codigo_curso

\* what Aluno.adicionar_ao_historico raises, or "ok"
adicionar_ao_historico_result(h, codigo_curso, nota, frequencia, carga, situacao) ==
    IF ~(0 <= nota /\ nota <= 100) THEN "ErroNota"
    ELSE IF ~(0 <= frequencia /\ frequencia <= 100) THEN "ErroFrequencia"
    ELSE IF carga <= 0 THEN "ErroCarga"
    ELSE IF situacao \notin situacoes_validas THEN "SituacaoInvalida"
    ELSE IF CursoNoHistorico(h, codigo_curso) THEN "JaNoHistorico"
    ELSE "ok"

Registro(codigo_curso, nota, frequencia, carga, situacao, semestre) ==
    [codigo_curso |-> codigo_curso, nota |-> nota, frequencia |-> frequencia,
     carga_horaria |-> carga, situacao |-> situacao, semestre |-> semestre]

\* Aluno.get_cursos_aprovados
get_cursos_aprovados(h) ==
    {h[i].codigo_curso : i \in {j \in 1..Len(h) : h[j].situacao = "APROVADO"}}

\* Aluno.adicionar_ao_historico called on the Aluno object
AdicionarAoHistorico(codigo_curso, nota, frequencia, carga, situacao, semestre) ==
    LET r == adicionar_ao_historico_result(hist, codigo_curso, nota, frequencia, carga,
                                           situacao)
        novo == Append(hist, Registro(codigo_curso, nota, frequencia, carga, situacao,
                                      semestre))
    IN  /\ hist' = IF r = "ok" THEN novo ELSE hist
        /\ cr' = IF r = "ok" THEN calcular_cr(novo) ELSE cr
        /\ last' = [op |-> "adicionar_ao_historico",
                    args |-> <<codigo_curso, semestre>>, result |-> r]
        /\ UNCHANGED <<rank, proc, settings, choque, obj_turma, curso_prerequisito, matricula, next_id,
                       historico_aluno, aluno_cr, mat, pode_trancar, av>>

\* the index of the first entry of the course, 0 if there is none
PrimeiroRegistro(h, codigo_curso) ==
    IF CursoNoHistorico(h, codigo_curso)
    THEN CHOOSE i \in 1..Len(h) :
             /\ h[i].codigo_curso = codigo_curso
             /\ \A j \in 1..(i - 1) : h[j].codigo_curso # codigo_curso
    ELSE 0

\* the loop of atualizar_historico over the keyword arguments, in the order
\* they were given: each field is checked and then assigned, so a field that
\* fails its check leaves the fields before it assigned.  Returns the entry
\* and the error raised ("ok" if none).
RECURSIVE atualizar_campos(_, _)
atualizar_campos(registro, kwargs) ==
    IF kwargs = <<>> THEN [registro |-> registro, err |-> "ok"]
    ELSE LET campo == Head(kwargs)[1]
             valor == Head(kwargs)[2]
         IN  IF campo = "nota" /\ ~(0 <= valor /\ valor <= 100)
             THEN [registro |-> registro, err |-> "ErroNota"]
             ELSE IF campo = "frequencia" /\ ~(0 <= valor /\ valor <= 100)
             THEN [registro |-> registro, err |-> "ErroFrequencia"]
             ELSE atualizar_campos(
                      IF campo = "nota" THEN [registro EXCEPT !.nota = valor]
                      ELSE IF campo = "frequencia"
                           THEN [registro EXCEPT !.frequencia = valor]
                      ELSE registro,
                      Tail(kwargs))

\* Aluno.atualizar_historico
AtualizarHistorico(codigo_curso, kwargs) ==
    LET i == PrimeiroRegistro(hist, codigo_curso)
        r == atualizar_campos(hist[i], kwargs)
        novo == [hist EXCEPT ![i] = r.registro]
    IN  /\ hist' = IF i = 0 THEN hist ELSE novo
        /\ cr' = IF i # 0 /\ r.err = "ok" THEN calcular_cr(novo) ELSE cr
        /\ last' = [op |-> "atualizar_historico", args |-> <<codigo_curso, "">>,
                    result |-> IF i = 0 THEN "False" ELSE r.err]
        /\ UNCHANGED <<rank, proc, settings, choque, obj_turma, curso_prerequisito, matricula, next_id,
                       historico_aluno, aluno_cr, mat, pode_trancar, av>>

\* Aluno.remover_do_historico
RemoverDoHistorico(codigo_curso) ==
    LET i == PrimeiroRegistro(hist, codigo_curso)
        novo == [k \in 1..(Len(hist) - 1) |-> IF k < i THEN hist[k] ELSE hist[k + 1]]
    IN  /\ hist' = IF i = 0 THEN hist ELSE novo
        /\ cr' = IF i = 0 THEN cr ELSE calcular_cr(novo)
        /\ last' = [op |-> "remover_do_historico", args |-> <<codigo_curso, "">>,
                    result |-> IF i = 0 THEN "False" ELSE "ok"]
        /\ UNCHANGED <<rank, proc, settings, choque, obj_turma, curso_prerequisito, matricula, next_id,
                       historico_aluno, aluno_cr, mat, pode_trancar, av>>

\* Aluno.carregar_historico
CarregarHistorico(historico) ==
    /\ hist' = historico
    /\ cr' = calcular_cr(historico)
    /\ last' = [op |-> "carregar_historico", args |-> <<"", "">>, result |-> "ok"]
    /\ UNCHANGED <<rank, proc, settings, choque, obj_turma, curso_prerequisito, matricula, next_id,
                   historico_aluno, aluno_cr, mat, pode_trancar, av>>

(***************************************************************************)
(* Matricula objects.  A world is the record [mat, hist, cr, err] of the   *)
(* objects' fields, the shared Aluno's history and CR, and the exception   *)
(* the running call has raised ("ok" while none).                          *)
(***************************************************************************)
Mats == {"M1", "M2"}
\* the Turma each Matricula object was built with: its course and period
mat_curso == [m \in Mats |-> IF m = "M2" THEN "BD" ELSE "POO"]
mat_periodo == [m \in Mats |-> "2025.1"]

\* Matricula.__init__(aluno, turma)
NovaMatricula ==
    [nota |-> None, frequencia |-> None, situacao |-> SITUACAO_CURSANDO,
     ativa |-> TRUE, data_conclusao |-> FALSE]

World == [mat |-> mat, hist |-> hist, cr |-> cr, err |-> "ok"]

\* the history push without the section's period
MutRegistrarSemPeriodo(w, m) ==
    LET o == w.mat[m]
        r == adicionar_ao_historico_result(w.hist, mat_curso[m], o.nota[1],
                 o.frequencia[1], carga_horaria[mat_curso[m]], o.situacao)
        novo == Append(w.hist, Registro(mat_curso[m], o.nota[1], o.frequencia[1],
                    carga_horaria[mat_curso[m]], o.situacao, ""))
    IN  IF r = "ok" THEN [w EXCEPT !.hist = novo, !.cr = calcular_cr(novo)]
        ELSE [w EXCEPT !.err = r]

\* Matricula._registrar_no_historico_do_aluno
registrar_no_historico_do_aluno(w, m) ==
    LET o == w.mat[m]
    IN  IF o.frequencia = None \/ o.nota = None THEN w
        ELSE LET r == adicionar_ao_historico_result(w.hist, mat_curso[m], o.nota[1],
                          o.frequencia[1], carga_horaria[mat_curso[m]], o.situacao)
                 novo == Append(w.hist, Registro(mat_curso[m], o.nota[1],
                             o.frequencia[1], carga_horaria[mat_curso[m]],
                             o.situacao, mat_periodo[m]))
             IN  IF r = "ok" THEN [w EXCEPT !.hist = novo, !.cr = calcular_cr(novo)]
                 ELSE [w EXCEPT !.err = r]

\* Matricula._atualizar_situacao
atualizar_situacao(w, m) ==
    LET o == w.mat[m]
    IN  IF o.nota = None \/ o.frequencia = None
        THEN [w EXCEPT !.mat[m].situacao = SITUACAO_CURSANDO, !.mat[m].ativa = TRUE]
        ELSE registrar_no_historico_do_aluno(
                 [w EXCEPT !.mat[m].situacao = matricula_situacao(o.nota[1], o.frequencia[1]),
                           !.mat[m].ativa = FALSE,
                           !.mat[m].data_conclusao = TRUE], m)

\* Matricula.nota setter
set_nota(w, m, valor) ==
    IF ~(0 <= valor /\ valor <= 100) THEN [w EXCEPT !.err = "ErroNota"]
    ELSE atualizar_situacao([w EXCEPT !.mat[m].nota = Some(valor)], m)

\* Matricula.frequencia setter
set_frequencia(w, m, valor) ==
    IF ~(0 <= valor /\ valor <= 100) THEN [w EXCEPT !.err = "ErroFrequencia"]
    ELSE atualizar_situacao([w EXCEPT !.mat[m].frequencia = Some(valor)], m)

\* Matricula.lancar_avaliacao
lancar_avaliacao(w, m, nota, frequencia) ==
    LET w1 == set_nota(w, m, nota)
    IN  IF w1.err # "ok" THEN w1 ELSE set_frequencia(w1, m, frequencia)

\* trancar without the test of the withdrawal deadline
MutTrancarSemPrazo(w, m, pode) ==
    IF ~w.mat[m].ativa THEN [w EXCEPT !.err = "JaFinalizada"]
    ELSE [w EXCEPT !.mat[m].situacao = SITUACAO_TRANCADA,
                   !.mat[m].ativa = FALSE,
                   !.mat[m].data_conclusao = TRUE]

\* Matricula.trancar
trancar(w, m, pode) ==
    IF ~w.mat[m].ativa THEN [w EXCEPT !.err = "JaFinalizada"]
    ELSE IF ~pode THEN [w EXCEPT !.err = "DataLimite"]
    ELSE [w EXCEPT !.mat[m].situacao = SITUACAO_TRANCADA,
                   !.mat[m].ativa = FALSE,
                   !.mat[m].data_conclusao = TRUE]

\* Matricula.desistir
desistir(w, m) ==
    [w EXCEPT !.mat[m].situacao = SITUACAO_DESISTENTE,
              !.mat[m].ativa = FALSE,
              !.mat[m].data_conclusao = TRUE]

(***************************************************************************)
(* The calls on Matricula objects, as actions.                             *)
(***************************************************************************)
Notas == {50, 90, 110}
Frequencias == {60, 80, 101}

Aplicar(w, op, args) ==
    /\ mat' = w.mat
    /\ hist' = w.hist
    /\ cr' = w.cr
    /\ last' = [op |-> op, args |-> args, result |-> w.err]
    /\ UNCHANGED <<rank, proc, settings, choque, obj_turma, curso_prerequisito, matricula, next_id, historico_aluno, aluno_cr, av>>

NotaSetter(m, valor) ==
    /\ Aplicar(set_nota(World, m, valor), "nota", <<m, valor>>)
    /\ UNCHANGED pode_trancar

FrequenciaSetter(m, valor) ==
    /\ Aplicar(set_frequencia(World, m, valor), "frequencia", <<m, valor>>)
    /\ UNCHANGED pode_trancar

LancarAvaliacao(m, nota, frequencia) ==
    /\ Aplicar(lancar_avaliacao(World, m, nota, frequencia), "lancar_avaliacao",
               <<m, nota, frequencia>>)
    /\ UNCHANGED pode_trancar

Trancar(m) ==
    /\ Aplicar(trancar(World, m, pode_trancar), "trancar", <<m>>)
    /\ UNCHANGED pode_trancar

Desistir(m) ==
    /\ Aplicar(desistir(World, m), "desistir", <<m>>)
    /\ UNCHANGED pode_trancar

MaxChamadas == 2   \* consecutive calcular_cr calls that are told apart

\* Aluno.calcular_cr called on the Aluno object; the call is numbered within
\* its run of consecutive calls
CalcularCr ==
    LET k == IF last.op = "calcular_cr" THEN last.args[1] + 1 ELSE 1
    IN  /\ k <= MaxChamadas
        /\ cr' = calcular_cr(hist)
        /\ last' = [op |-> "calcular_cr", args |-> <<k>>, result |-> calcular_cr(hist)]
        /\ UNCHANGED <<rank, proc, settings, choque, obj_turma, curso_prerequisito, matricula, next_id, historico_aluno,
                       aluno_cr, mat, hist, pode_trancar, av>>

\* Settings._load_config when no settings.json is found
default_config == [max_turmas_por_aluno |-> max_turmas_por_aluno]

\* Settings.update_config with a new max_turmas_por_aluno
update_config(valor) ==
    /\ settings' = [settings EXCEPT !.max_turmas_por_aluno = valor]
    /\ last' = [op |-> "update_config", args |-> <<valor>>, result |-> "ok"]
    /\ UNCHANGED <<rank, proc, choque, obj_turma, curso_prerequisito, matricula, next_id, historico_aluno,
                   aluno_cr, mat, hist, cr, pode_trancar, av>>

\* the withdrawal deadline passes
PassarDataLimite ==
    /\ pode_trancar
    /\ pode_trancar' = FALSE
    /\ last' = [op |-> "data_limite", args |-> <<>>, result |-> "ok"]
    /\ UNCHANGED <<rank, proc, settings, choque, obj_turma, curso_prerequisito, matricula, next_id, historico_aluno, aluno_cr,
                   mat, hist, cr, av>>

(***************************************************************************)
(* Tables aluno, turma and horario_turma.                                  *)
(***************************************************************************)
Alunos == {"A1", "A2"}
AlunoInexistente == "A9"
Turmas == {"T1", "T2", "T3", "T4"}
TurmaInexistente == "T9"

\* an interval string: both times in minutes since midnight, written either
\* "HH:MM-HH:MM" or, with seconds, "HH:MM:SS-HH:MM:SS"
Intervalo(h1, m1, h2, m2) ==
    [inicio |-> 60 * h1 + m1, fim |-> 60 * h2 + m2, com_segundos |-> FALSE]

\* rows of table turma, each with its rows of horario_turma (dia -> intervalo)
turma ==
    [t \in Turmas |->
        CASE t = "T1" -> [curso_codigo |-> "POO", periodo |-> "2025.1", vagas |-> 1,
                          horarios |-> [d \in {"ter"} |-> Intervalo(18, 0, 20, 0)]]
          [] t = "T2" -> [curso_codigo |-> "BD", periodo |-> "2025.1", vagas |-> 2,
                          horarios |-> [d \in {"ter"} |-> Intervalo(19, 0, 21, 0)]]
          [] t = "T3" -> [curso_codigo |-> "POO", periodo |-> "2025.1", vagas |-> 1,
                          horarios |-> [d \in {"qua"} |-> Intervalo(18, 0, 20, 0)]]
          [] t = "T4" -> [curso_codigo |-> "INP", periodo |-> "2025.2", vagas |-> 1,
                          horarios |-> [d \in {"ter"} |-> Intervalo(18, 0, 20, 0)]]]

(***************************************************************************)
(* TurmaService.buscar_turma: the Turma object built for a stored turma.   *)
(* The course is loaded without its prerequisites, the object starts with  *)
(* no Matricula registered and with status True.                           *)
(***************************************************************************)
buscar_turma(tab, t) ==
    [id |-> t,
     periodo |-> turma[t].periodo,
     vagas |-> turma[t].vagas,
     horarios |-> turma[t].horarios,
     curso |-> [codigo |-> turma[t].curso_codigo,
                prerequisitos |-> buscar_curso_prerequisitos(tab, turma[t].curso_codigo, FALSE)],
     status |-> TRUE,
     matriculas |-> <<>>]

\* Turma.vagas_ocupadas / vagas_disponiveis / esta_aberta_para_matricula
vagas_ocupadas(obj) == Len(obj.matriculas)
vagas_disponiveis(obj) ==
    IF obj.vagas - vagas_ocupadas(obj) > 0 THEN obj.vagas - vagas_ocupadas(obj) ELSE 0
esta_aberta_para_matricula(obj) == obj.status = TRUE

\* Curso.get_prerequisitos_faltantes
get_prerequisitos_faltantes(curso, cursos_concluidos) ==
    curso.prerequisitos \ cursos_concluidos

(***************************************************************************)
(* MatriculaRepository over table matricula.                               *)
(***************************************************************************)
Ids == DOMAIN matricula

SituacoesContadas == {"CURSANDO", "APROVADO", "REPROVADO_POR_NOTA",
                      "REPROVADO_POR_FREQUENCIA"}

existe_matricula(tab, a, t) ==
    \E i \in DOMAIN tab : tab[i].aluno_matricula = a /\ tab[i].turma_id = t

count_matriculas_por_aluno(tab, a, periodo) ==
    Cardinality({i \in DOMAIN tab :
        /\ tab[i].aluno_matricula = a
        /\ turma[tab[i].turma_id].periodo = periodo
        /\ tab[i].situacao \in SituacoesContadas})

\* the rows listar_matriculas_por_aluno returns, with the column names the
\* SELECT gives them
listar_matriculas_por_aluno(tab, a) ==
    {[id |-> i, aluno_matricula |-> a, turma_id |-> tab[i].turma_id,
      situacao |-> tab[i].situacao,
      periodo |-> turma[tab[i].turma_id].periodo,
      vagas |-> turma[tab[i].turma_id].vagas,
      curso_codigo |-> turma[tab[i].turma_id].curso_codigo]
        : i \in {j \in DOMAIN tab : tab[j].aluno_matricula = a}}

\* get_horarios_do_aluno: the (dia, intervalo) rows of the student's sections
\* of the period
get_horarios_do_aluno(tab, a, periodo) ==
    UNION {{<<d, turma[tab[i].turma_id].horarios[d]>> :
                d \in DOMAIN turma[tab[i].turma_id].horarios} :
            i \in {j \in DOMAIN tab :
                      /\ tab[j].aluno_matricula = a
                      /\ turma[tab[j].turma_id].periodo = periodo
                      /\ tab[j].situacao \in SituacoesContadas}}

\* create: INSERT with the next AUTOINCREMENT id
repo_create(tab, id, a, t) ==
    [i \in DOMAIN tab \cup {id} |->
        IF i = id
        THEN [aluno_matricula |-> a, turma_id |-> t, situacao |-> "CURSANDO",
              nota |-> None, frequencia |-> None]
        ELSE tab[i]]

\* atualizar_nota_frequencia: both UPDATEs
atualizar_nota_frequencia(tab, id, nota, frequencia) ==
    [tab EXCEPT ![id].nota = Some(nota),
                ![id].frequencia = Some(frequencia),
                ![id].situacao = repo_situacao(nota, frequencia)]

(***************************************************************************)
(* MatriculaService.                                                       *)
(***************************************************************************)
buscar_aluno(a) == a \in Alunos

\* _verificar_choque_horario.parse_intervalo: strptime with "%H:%M" raises
\* ValueError on a time written with seconds
strptime_falha(intervalo) == intervalo.com_segundos

\* _verificar_choque_horario, once both intervals are parsed
verificar_choque_horario(intervalo1, intervalo2) ==
    ~(intervalo1.fim <= intervalo2.inicio \/ intervalo2.fim <= intervalo1.inicio)

\* the loop of validar_matricula over the student's slots of the period, the
\* days taken in the order the rows came in: "choque" at the first overlap,
\* "ValueError" if a compared interval does not parse before one is found
RECURSIVE choque_na_validacao(_, _, _)
choque_na_validacao(dias, horarios_aluno, horarios_turma) ==
    IF dias = <<>> THEN "livre"
    ELSE LET dia == Head(dias)
         IN  IF dia \notin DOMAIN horarios_turma
             THEN choque_na_validacao(Tail(dias), horarios_aluno, horarios_turma)
             ELSE IF strptime_falha(horarios_aluno[dia]) \/ strptime_falha(horarios_turma[dia])
                  THEN "ValueError"
             ELSE IF verificar_choque_horario(horarios_aluno[dia], horarios_turma[dia])
                  THEN "choque"
             ELSE choque_na_validacao(Tail(dias), horarios_aluno, horarios_turma)

\* Oferta._parse_intervalo: time.fromisoformat reads both ways of writing
parse_intervalo(intervalo) == <<intervalo.inicio, intervalo.fim>>

\* Oferta.verificar_choque of an offer holding horarios, asked about
\* horarios_externos
verificar_choque(horarios, horarios_externos) ==
    IF \E dia \in DOMAIN horarios_externos :
           /\ dia \in DOMAIN horarios
           /\ LET atual == parse_intervalo(horarios[dia])
                  externo == parse_intervalo(horarios_externos[dia])
              IN  ~(atual[2] <= externo[1] \/ externo[2] <= atual[1])
    THEN "choque" ELSE "livre"

\* validar_matricula, from the opening check on: the message it returns
validar_matricula(prereq, tab, historico, a, t) ==
    LET obj == buscar_turma(prereq, t)
        faltantes == get_prerequisitos_faltantes(obj.curso,
                         get_cursos_aprovados(historico[a]))
        horarios_aluno == get_horarios_do_aluno(tab, a, obj.periodo)
        matriculas_aluno == listar_matriculas_por_aluno(tab, a)
    IN  IF ~esta_aberta_para_matricula(obj) THEN "TurmaFechada"
        ELSE IF vagas_disponiveis(obj) <= 0 THEN "SemVagas"
        ELSE IF faltantes # {} THEN "PrerequisitosFaltantes"
        ELSE IF \E h \in horarios_aluno :
                    /\ h[1] \in DOMAIN obj.horarios
                    /\ verificar_choque_horario(h[2], obj.horarios[h[1]])
             THEN "ChoqueHorario"
        ELSE IF \E m \in matriculas_aluno : "turma_periodo" \notin DOMAIN m
             THEN "KeyError"
        ELSE IF \E m \in matriculas_aluno :
                    /\ m.turma_periodo = obj.periodo
                    /\ m.curso_codigo = obj.curso.codigo
             THEN "CursoDuplicado"
        ELSE "valida"

\* criar_matricula: what it raises, or "ok"
criar_matricula_result(prereq, tab, historico, a, t) ==
    IF ~buscar_aluno(a) THEN "AlunoNaoEncontrado"
    ELSE IF t \notin Turmas THEN "TurmaNaoEncontrada"
    ELSE IF existe_matricula(tab, a, t) THEN "JaMatriculado"
    ELSE IF validar_matricula(prereq, tab, historico, a, t) # "valida"
         THEN validar_matricula(prereq, tab, historico, a, t)
    ELSE IF /\ settings.max_turmas_por_aluno > 0
            /\ count_matriculas_por_aluno(tab, a, turma[t].periodo)
                    >= settings.max_turmas_por_aluno
         THEN "LimiteTurmas"
    ELSE "ok"

\* criar_matricula with the INSERT made before the checks are looked at
MutCriarAntesDeValidar(a, t) ==
    LET r == criar_matricula_result(curso_prerequisito, matricula, historico_aluno, a, t)
    IN  /\ next_id <= MaxMatriculaId
        /\ a \in Alunos /\ t \in Turmas
        /\ matricula' = repo_create(matricula, next_id, a, t)
        /\ next_id' = next_id + 1
        /\ last' = [op |-> "criar_matricula", args |-> <<a, t>>, result |-> r]
        /\ UNCHANGED <<rank, proc, settings, choque, obj_turma, curso_prerequisito, historico_aluno, aluno_cr, mat, hist, cr,
                       pode_trancar, av>>

criar_matricula(a, t) ==
    LET r == criar_matricula_result(curso_prerequisito, matricula, historico_aluno, a, t)
    IN  /\ r = "ok" => next_id <= MaxMatriculaId
        /\ matricula' = IF r = "ok" THEN repo_create(matricula, next_id, a, t) ELSE matricula
        /\ next_id' = IF r = "ok" THEN next_id + 1 ELSE next_id
        /\ last' = [op |-> "criar_matricula", args |-> <<a, t>>, result |-> r]
        /\ UNCHANGED <<rank, proc, settings, choque, obj_turma, curso_prerequisito, historico_aluno, aluno_cr, mat, hist, cr,
                       pode_trancar, av>>

\* criar_matricula called by several threads over the one shared connection,
\* with no lock and no transaction around it: a call first makes its checks
\* (steps 1 to 5, reads only) and later makes its INSERT (step 6), and steps of
\* other calls may run in between
ProcInicial == [a \in Alunos |-> [pc |-> "inicio", turma_id |-> "", result |-> ""]]

criar_matricula_checagens(a, t) ==
    LET r == criar_matricula_result(curso_prerequisito, matricula, historico_aluno, a, t)
    IN  /\ proc[a].pc = "inicio"
        /\ proc' = [proc EXCEPT ![a] =
                        [pc |-> IF r = "ok" THEN "criar" ELSE "fim",
                         turma_id |-> t, result |-> r]]
        /\ last' = [op |-> "criar_matricula_checagens", args |-> <<a, t>>, result |-> r]
        /\ UNCHANGED <<rank, settings, choque, obj_turma, curso_prerequisito, matricula, next_id,
                       historico_aluno, aluno_cr, mat, hist, cr, pode_trancar, av>>

criar_matricula_insert(a) ==
    /\ proc[a].pc = "criar"
    /\ next_id <= MaxMatriculaId
    /\ matricula' = repo_create(matricula, next_id, a, proc[a].turma_id)
    /\ next_id' = next_id + 1
    /\ proc' = [proc EXCEPT ![a].pc = "fim"]
    /\ last' = [op |-> "criar_matricula_insert", args |-> <<a, proc[a].turma_id>>,
                result |-> "ok"]
    /\ UNCHANGED <<rank, settings, choque, obj_turma, curso_prerequisito, historico_aluno, aluno_cr,
                   mat, hist, cr, pode_trancar, av>>

\* the call has returned or raised; the caller may make another
criar_matricula_retorno(a) ==
    /\ proc[a].pc = "fim"
    /\ proc' = [proc EXCEPT ![a] = ProcInicial[a]]
    /\ last' = [op |-> "criar_matricula_retorno", args |-> <<a>>, result |-> proc[a].result]
    /\ UNCHANGED <<rank, settings, choque, obj_turma, curso_prerequisito, matricula, next_id,
                   historico_aluno, aluno_cr, mat, hist, cr, pode_trancar, av>>

\* buscar_matricula: the Matricula object is built from the row's situacao;
\* get_by_id selects neither nota nor frequencia, so both start as None
buscar_matricula_ativa(tab, id) == tab[id].situacao = SITUACAO_CURSANDO

\* lancar_nota_frequencia: what it raises, or "ok"
lancar_nota_frequencia_result(tab, historico, id, nota, frequencia) ==
    IF ~(0 <= nota /\ nota <= 100) THEN "ErroNota"
    ELSE IF ~(0 <= frequencia /\ frequencia <= 100) THEN "ErroFrequencia"
    ELSE IF id \notin DOMAIN tab THEN "MatriculaNaoEncontrada"
    ELSE IF ~buscar_matricula_ativa(tab, id) THEN "NaoAtiva"
    ELSE adicionar_ao_historico_result(historico[tab[id].aluno_matricula],
             turma[tab[id].turma_id].curso_codigo, nota, frequencia,
             carga_horaria[turma[tab[id].turma_id].curso_codigo],
             matricula_situacao(nota, frequencia))

\* the row is updated before the object's setters run
lancar_nota_frequencia(id, nota, frequencia) ==
    LET r == lancar_nota_frequencia_result(matricula, historico_aluno, id, nota, frequencia)
    IN  /\ matricula' = IF r \in {"ok", "JaNoHistorico"}
                        THEN atualizar_nota_frequencia(matricula, id, nota, frequencia)
                        ELSE matricula
        /\ last' = [op |-> "lancar_nota_frequencia", args |-> <<id, nota, frequencia>>,
                    result |-> r]
        /\ UNCHANGED <<rank, proc, settings, choque, obj_turma, curso_prerequisito, next_id, historico_aluno, aluno_cr, mat, hist,
                       cr, pode_trancar, av>>

trancar_matricula_result(tab, id, pode) ==
    IF id \notin DOMAIN tab THEN "MatriculaNaoEncontrada"
    ELSE IF ~pode THEN "DataLimite"
    ELSE IF ~buscar_matricula_ativa(tab, id) THEN "JaFinalizada"
    ELSE "ok"

trancar_matricula(id) ==
    LET r == trancar_matricula_result(matricula, id, pode_trancar)
    IN  /\ matricula' = IF r = "ok"
                        THEN [matricula EXCEPT ![id].situacao = SITUACAO_TRANCADA]
                        ELSE matricula
        /\ last' = [op |-> "trancar_matricula", args |-> <<id>>, result |-> r]
        /\ UNCHANGED <<rank, proc, settings, choque, obj_turma, curso_prerequisito, next_id, historico_aluno, aluno_cr, mat, hist,
                       cr, pode_trancar, av>>

(***************************************************************************)
(* AlunoService.adicionar_ao_historico: the row is validated on an Aluno   *)
(* object loaded from the table, inserted, and the stored CR recomputed.   *)
(***************************************************************************)
\* AlunoRepository.calcular_cr_aluno: SUM(nota * carga_horaria) and
\* SUM(carga_horaria) over the rows WHERE situacao IN ('APROVADO',
\* 'REPROVADO_POR_NOTA'), divided and rounded when the second sum is positive
RECURSIVE sql_soma_ponderada(_), sql_total_carga(_)
sql_soma_ponderada(h) ==
    IF h = <<>> THEN 0
    ELSE (IF Head(h).situacao \in {"APROVADO", "REPROVADO_POR_NOTA"}
          THEN Head(h).nota * Head(h).carga_horaria ELSE 0)
         + sql_soma_ponderada(Tail(h))

sql_total_carga(h) ==
    IF h = <<>> THEN 0
    ELSE (IF Head(h).situacao \in {"APROVADO", "REPROVADO_POR_NOTA"}
          THEN Head(h).carga_horaria ELSE 0)
         + sql_total_carga(Tail(h))

calcular_cr_aluno(h) ==
    IF sql_total_carga(h) > 0
    THEN Round(10 * sql_soma_ponderada(h), sql_total_carga(h))
    ELSE 0

\* AlunoRepository.atualizar_cr_aluno
atualizar_cr_aluno(a) ==
    /\ aluno_cr' = [aluno_cr EXCEPT ![a] = calcular_cr_aluno(historico_aluno[a])]
    /\ last' = [op |-> "atualizar_cr_aluno", args |-> <<a>>, result |-> "ok"]
    /\ UNCHANGED <<rank, proc, settings, choque, obj_turma, curso_prerequisito, matricula, next_id, historico_aluno,
                   mat, hist, cr, pode_trancar, av>>

service_adicionar_ao_historico(a, reg) ==
    LET r == IF ~buscar_aluno(a) THEN "AlunoNaoEncontrado"
             ELSE adicionar_ao_historico_result(historico_aluno[a], reg.codigo_curso,
                      reg.nota, reg.frequencia, reg.carga_horaria, reg.situacao)
        novo == Append(historico_aluno[a], reg)
    IN  /\ historico_aluno' = IF r = "ok" THEN [historico_aluno EXCEPT ![a] = novo]
                              ELSE historico_aluno
        /\ aluno_cr' = IF r = "ok" THEN [aluno_cr EXCEPT ![a] = calcular_cr_aluno(novo)]
                       ELSE aluno_cr
        /\ last' = [op |-> "adicionar_ao_historico", args |-> <<a, reg.codigo_curso>>,
                    result |-> r]
        /\ UNCHANGED <<rank, proc, settings, choque, obj_turma, curso_prerequisito, matricula, next_id, mat, hist, cr,
                       pode_trancar, av>>

\* the history rows the model's callers submit
RegistrosSubmetidos ==
    {Registro("INP", 90, 80, 64, "APROVADO", "2024.2")}

(***************************************************************************)
(* A Turma object: Oferta.vagas setter and the Turma methods that keep the *)
(* _matriculas list and the status.                                        *)
(***************************************************************************)
MaxMatriculasTurma == 3   \* length the _matriculas list may reach
MaxVagas == 3             \* largest capacity the vagas setter is given

\* Turma.__init__: status True and no Matricula registered
NovaTurma == [vagas |-> 2, status |-> TRUE, matriculas |-> <<>>]

\* Turma.atualizar_status_vagas
atualizar_status_vagas(obj) ==
    [obj EXCEPT !.status = ~(vagas_ocupadas(obj) >= obj.vagas)]

\* list.remove: the list without the first element equal to m
RECURSIVE RemoverPrimeiro(_, _)
RemoverPrimeiro(lista, m) ==
    IF lista = <<>> THEN <<>>
    ELSE IF Head(lista) = m THEN Tail(lista)
    ELSE <<Head(lista)>> \o RemoverPrimeiro(Tail(lista), m)

\* Turma.abrir
abrir ==
    /\ obj_turma' = [obj_turma EXCEPT !.status = TRUE]
    /\ last' = [op |-> "abrir", args |-> <<>>, result |-> "ok"]
    /\ UNCHANGED <<rank, proc, settings, choque, curso_prerequisito, matricula, next_id, historico_aluno, aluno_cr,
                   mat, hist, cr, pode_trancar, av>>

\* Turma.fechar
fechar ==
    /\ obj_turma' = [obj_turma EXCEPT !.status = FALSE]
    /\ last' = [op |-> "fechar", args |-> <<>>, result |-> "ok"]
    /\ UNCHANGED <<rank, proc, settings, choque, curso_prerequisito, matricula, next_id, historico_aluno, aluno_cr,
                   mat, hist, cr, pode_trancar, av>>

\* Turma.adicionar_matricula
adicionar_matricula(m) ==
    /\ Len(obj_turma.matriculas) < MaxMatriculasTurma
    /\ obj_turma' = atualizar_status_vagas(
                        [obj_turma EXCEPT !.matriculas = Append(@, m)])
    /\ last' = [op |-> "adicionar_matricula", args |-> <<m>>, result |-> "ok"]
    /\ UNCHANGED <<rank, proc, settings, choque, curso_prerequisito, matricula, next_id, historico_aluno, aluno_cr,
                   mat, hist, cr, pode_trancar, av>>

\* Turma.remover_matricula
remover_matricula(m) ==
    LET achou == \E i \in 1..Len(obj_turma.matriculas) : obj_turma.matriculas[i] = m
    IN  /\ obj_turma' =
              IF achou
              THEN atualizar_status_vagas(
                       [obj_turma EXCEPT !.matriculas = RemoverPrimeiro(@, m)])
              ELSE obj_turma
        /\ last' = [op |-> "remover_matricula", args |-> <<m>>,
                    result |-> IF achou THEN "ok" ELSE "NaoEncontrada"]
        /\ UNCHANGED <<rank, proc, settings, choque, curso_prerequisito, matricula, next_id, historico_aluno, aluno_cr,
                       mat, hist, cr, pode_trancar, av>>

\* Oferta.vagas setter
VagasSetter(valor) ==
    /\ obj_turma' = IF valor <= 0 THEN obj_turma ELSE [obj_turma EXCEPT !.vagas = valor]
    /\ last' = [op |-> "vagas", args |-> <<valor>>,
                result |-> IF valor <= 0 THEN "ErroVagas" ELSE "ok"]
    /\ UNCHANGED <<rank, proc, settings, choque, curso_prerequisito, matricula, next_id, historico_aluno, aluno_cr,
                   mat, hist, cr, pode_trancar, av>>

(***************************************************************************)
(* Relatorio.ranking.  An Aluno of the list is [matricula, nome, cr]; nome *)
(* is the position of the name in alphabetical order.                      *)
(***************************************************************************)
\* Aluno.__lt__: higher CR first, then the name in alphabetical order
aluno_lt(a, b) ==
    IF a.cr # b.cr THEN a.cr > b.cr ELSE a.nome < b.nome

\* one step of the stable descending sort: x goes before the first element
\* that is less than x, after every element that is not
RECURSIVE inserir_reverso(_, _)
inserir_reverso(ordenados, x) ==
    IF ordenados = <<>> THEN <<x>>
    ELSE IF aluno_lt(Head(ordenados), x) THEN <<x>> \o ordenados
    ELSE <<Head(ordenados)>> \o inserir_reverso(Tail(ordenados), x)

\* sorted(alunos, reverse=True): descending by __lt__, equal elements in the
\* order they were given
RECURSIVE sorted_reverse(_)
sorted_reverse(alunos) ==
    IF alunos = <<>> THEN <<>>
    ELSE inserir_reverso(sorted_reverse(SubSeq(alunos, 1, Len(alunos) - 1)),
                         alunos[Len(alunos)])

\* Relatorio.ranking
ranking(alunos, top_n_alunos) ==
    LET alunos_ordenados == sorted_reverse(alunos)
    IN  SubSeq(alunos_ordenados, 1,
               IF top_n_alunos < Len(alunos_ordenados) THEN top_n_alunos
               ELSE Len(alunos_ordenados))

RankInicial == [alunos |-> <<>>, top_n_alunos |-> 1, feito |-> FALSE, resultado |-> <<>>]

Ranking ==
    /\ rank.feito = FALSE
    /\ rank' = [rank EXCEPT !.feito = TRUE,
                            !.resultado = ranking(rank.alunos, rank.top_n_alunos)]
    /\ last' = [op |-> "ranking", args |-> <<>>, result |-> "ok"]
    /\ UNCHANGED <<proc, settings, choque, obj_turma, curso_prerequisito, matricula, next_id,
                   historico_aluno, aluno_cr, mat, hist, cr, pode_trancar, av>>

(***************************************************************************)
(* The overlap checks applied to one pair of slot maps: a is the slot map  *)
(* of a section the student is enrolled in, b the candidate section's.     *)
(***************************************************************************)
ChoqueInicial == [a |-> <<>>, b |-> <<>>, feito |-> FALSE,
                  oferta_ab |-> "", oferta_ba |-> "", validacao |-> ""]

\* the orders a set of days can be listed in
Ordens(dias) ==
    {o \in [1..Cardinality(dias) -> dias] : \A i, j \in DOMAIN o : i # j => o[i] # o[j]}

VerificarChoque ==
    /\ choque.feito = FALSE
    /\ \E ordem \in Ordens(DOMAIN choque.a) :
           choque' = [choque EXCEPT
                         !.feito = TRUE,
                         !.oferta_ab = verificar_choque(choque.a, choque.b),
                         !.oferta_ba = verificar_choque(choque.b, choque.a),
                         !.validacao = choque_na_validacao(ordem, choque.a, choque.b)]
    /\ last' = [op |-> "verificar_choque", args |-> <<>>, result |-> "ok"]
    /\ UNCHANGED <<rank, proc, settings, curso_prerequisito, matricula, next_id, historico_aluno, aluno_cr,
                   mat, hist, cr, pode_trancar, av, obj_turma>>

(***************************************************************************)
(* The three status derivations applied to one (nota, frequencia).         *)
(***************************************************************************)
Avaliar ==
    /\ av.feito = FALSE
    /\ av' = [av EXCEPT !.feito = TRUE,
                        !.matricula = matricula_situacao(av.nota, av.frequencia),
                        !.regra = avaliar(av.nota, av.frequencia),
                        !.repositorio = repo_situacao(av.nota, av.frequencia)]
    /\ last' = [op |-> "avaliar", args |-> <<av.nota, av.frequencia>>, result |-> "ok"]
    /\ UNCHANGED <<rank, proc, settings, choque, obj_turma, curso_prerequisito, matricula, next_id, historico_aluno, aluno_cr,
                   mat, hist, cr, pode_trancar>>

(***************************************************************************)
(* Initial states and specifications.                                      *)
(***************************************************************************)
SemPrerequisitos == [e \in (Cursos \X Cursos) |-> 0]
AvInicial == [nota |-> 0, frequencia |-> 0, feito |-> FALSE,
              matricula |-> "", regra |-> "", repositorio |-> ""]
LastInicial == [op |-> "init", args |-> <<>>, result |-> "ok"]

InitTabelas ==
    /\ matricula = <<>>
    /\ next_id = 1
    /\ historico_aluno = [a \in Alunos |-> <<>>]
    /\ aluno_cr = [a \in Alunos |-> 0]
    /\ settings = default_config
    /\ proc = ProcInicial
    /\ rank = RankInicial

InitObjetos ==
    /\ mat = [m \in Mats |-> NovaMatricula]
    /\ obj_turma = NovaTurma
    /\ choque = ChoqueInicial
    /\ hist = <<>>
    /\ cr = 0

\* the catalog service on an empty prerequisite table
InitCatalog ==
    /\ curso_prerequisito = SemPrerequisitos
    /\ InitTabelas /\ InitObjetos
    /\ pode_trancar = TRUE
    /\ av = AvInicial
    /\ last = LastInicial

NextCatalog ==
    \E c \in Cursos \cup {CursoInexistente}, p \in Cursos \cup {CursoInexistente} :
        \/ adicionar_prerequisito(c, p)
        \/ remover_prerequisito(c, p)

SpecCatalog == InitCatalog /\ [][NextCatalog]_vars

\* Matricula objects freshly built for one Aluno object
InitMat ==
    /\ curso_prerequisito = SemPrerequisitos
    /\ InitTabelas /\ InitObjetos
    /\ pode_trancar = TRUE
    /\ av = AvInicial
    /\ last = LastInicial

NextMat ==
    \/ \E m \in Mats, v \in Notas : NotaSetter(m, v)
    \/ \E m \in Mats, v \in Frequencias : FrequenciaSetter(m, v)
    \/ \E m \in Mats, n \in Notas, f \in Frequencias : LancarAvaliacao(m, n, f)
    \/ \E m \in Mats : Trancar(m)
    \/ \E m \in Mats : Desistir(m)
    \/ PassarDataLimite

SpecMat == InitMat /\ [][NextMat]_vars

\* the enrollment service on a catalog where POO requires INP
InitEnroll ==
    /\ curso_prerequisito = [SemPrerequisitos EXCEPT ![<<"POO", "INP">>] = 1]
    /\ InitTabelas /\ InitObjetos
    /\ pode_trancar = TRUE
    /\ av = AvInicial
    /\ last = LastInicial

\* the (nota, frequencia) pairs the model's callers submit
Avaliacoes == {<<90, 80>>, <<50, 80>>, <<90, 60>>, <<110, 80>>, <<90, 101>>}

NextEnroll ==
    \/ \E a \in Alunos \cup {AlunoInexistente}, t \in Turmas \cup {TurmaInexistente} :
           criar_matricula(a, t)
    \/ \E id \in DOMAIN matricula \cup {next_id}, x \in Avaliacoes :
           lancar_nota_frequencia(id, x[1], x[2])
    \/ \E id \in DOMAIN matricula \cup {next_id} : trancar_matricula(id)
    \/ \E a \in Alunos, reg \in RegistrosSubmetidos : service_adicionar_ao_historico(a, reg)

SpecEnroll == InitEnroll /\ [][NextEnroll]_vars

\* the status derivations over every in-range grade and attendance
InitAvaliar ==
    /\ curso_prerequisito = SemPrerequisitos
    /\ InitTabelas /\ InitObjetos
    /\ pode_trancar = TRUE
    /\ av \in {[AvInicial EXCEPT !.nota = n, !.frequencia = f] :
                  n \in 0..100, f \in 0..100}
    /\ last = LastInicial

NextAvaliar == Avaliar

SpecAvaliar == InitAvaliar /\ [][NextAvaliar]_vars

\* a Turma object of two seats and the Matricula objects it is given
InitTurma ==
    /\ curso_prerequisito = SemPrerequisitos
    /\ InitTabelas /\ InitObjetos
    /\ pode_trancar = TRUE
    /\ av = AvInicial
    /\ last = LastInicial

NextTurma ==
    \/ \E m \in Mats : adicionar_matricula(m)
    \/ \E m \in Mats : remover_matricula(m)
    \/ \E v \in 0..MaxVagas : VagasSetter(v)
    \/ \E m \in Mats : LancarAvaliacao(m, 90, 80)
    \/ \E m \in Mats : Trancar(m)
    \/ abrir
    \/ fechar

SpecTurma == InitTurma /\ [][NextTurma]_vars

\* withdrawals, on Matricula objects and through the service, before and
\* after the withdrawal deadline
InitTrancar ==
    /\ curso_prerequisito = SemPrerequisitos
    /\ InitTabelas /\ InitObjetos
    /\ pode_trancar = TRUE
    /\ av = AvInicial
    /\ last = LastInicial

NextTrancar ==
    \/ \E a \in Alunos, t \in {"T1", "T4"} : criar_matricula(a, t)
    \/ \E id \in DOMAIN matricula : lancar_nota_frequencia(id, 90, 80)
    \/ \E id \in DOMAIN matricula \cup {next_id} : trancar_matricula(id)
    \/ \E reg \in RegistrosSubmetidos : service_adicionar_ao_historico("A1", reg)
    \/ \E m \in Mats : LancarAvaliacao(m, 90, 80)
    \/ \E m \in Mats : Trancar(m)
    \/ PassarDataLimite

SpecTrancar == InitTrancar /\ [][NextTrancar]_vars

\* the history entries an Aluno may be built with: any course, two grades,
\* every situation adicionar_ao_historico accepts
RegistrosPossiveis ==
    {Registro(c, n, 80, carga_horaria[c], sit, "2024.2") :
        c \in Cursos, n \in {50, 90}, sit \in situacoes_validas}

\* histories of at most one entry per course
HistoricosPossiveis ==
    {h \in UNION {[1..n -> RegistrosPossiveis] : n \in 0..Cardinality(Cursos)} :
        \A i, j \in 1..Len(h) : i # j => h[i].codigo_curso # h[j].codigo_curso}

\* an Aluno object and the rows of student A1, both holding the same history
InitCr ==
    /\ curso_prerequisito = SemPrerequisitos
    /\ matricula = <<>>
    /\ next_id = 1
    /\ hist \in HistoricosPossiveis
    /\ historico_aluno = [a \in Alunos |-> IF a = "A1" THEN hist ELSE <<>>]
    /\ aluno_cr = [a \in Alunos |-> 0]
    /\ cr = 0
    /\ mat = [m \in Mats |-> NovaMatricula]
    /\ obj_turma = NovaTurma
    /\ choque = ChoqueInicial
    /\ settings = default_config
    /\ proc = ProcInicial
    /\ rank = RankInicial
    /\ pode_trancar = TRUE
    /\ av = AvInicial
    /\ last = LastInicial

NextCr ==
    \/ CalcularCr
    \/ atualizar_cr_aluno("A1")

SpecCr == InitCr /\ [][NextCr]_vars

\* the interval strings a slot map may hold, in both ways of writing
IntervalosPossiveis ==
    {[inicio |-> 60 * h1, fim |-> 60 * h2, com_segundos |-> f] :
        h1 \in 18..19, h2 \in 19..20, f \in BOOLEAN} \ 
    {[inicio |-> 60 * 19, fim |-> 60 * 19, com_segundos |-> f] : f \in BOOLEAN}

\* slot maps of one or two days
HorariosPossiveis ==
    UNION {[dias -> IntervalosPossiveis] : dias \in (SUBSET {"ter", "qua"}) \ {{}}}

InitChoque ==
    /\ curso_prerequisito = SemPrerequisitos
    /\ InitTabelas
    /\ mat = [m \in Mats |-> NovaMatricula]
    /\ hist = <<>>
    /\ cr = 0
    /\ obj_turma = NovaTurma
    /\ choque \in {[ChoqueInicial EXCEPT !.a = x, !.b = y] :
                      x \in HorariosPossiveis, y \in HorariosPossiveis}
    /\ pode_trancar = TRUE
    /\ av = AvInicial
    /\ last = LastInicial

NextChoque == VerificarChoque

SpecChoque == InitChoque /\ [][NextChoque]_vars

\* the enrollment service under a small max_turmas_por_aluno
MaximosConfigurados == {0, 1, 2}

InitLimite ==
    /\ curso_prerequisito = SemPrerequisitos
    /\ InitTabelas /\ InitObjetos
    /\ pode_trancar = TRUE
    /\ av = AvInicial
    /\ last = LastInicial

NextLimite ==
    \/ \E valor \in MaximosConfigurados : update_config(valor)
    \/ \E a \in Alunos, t \in {"T2", "T3", "T4"} : criar_matricula(a, t)
    \/ \E id \in DOMAIN matricula : lancar_nota_frequencia(id, 90, 80)
    \/ \E id \in DOMAIN matricula : trancar_matricula(id)

SpecLimite == InitLimite /\ [][NextLimite]_vars

\* two students calling criar_matricula concurrently
InitConcorrente ==
    /\ curso_prerequisito = SemPrerequisitos
    /\ InitTabelas /\ InitObjetos
    /\ pode_trancar = TRUE
    /\ av = AvInicial
    /\ last = LastInicial

NextConcorrente ==
    \/ \E a \in Alunos, t \in Turmas : criar_matricula_checagens(a, t)
    \/ \E a \in Alunos : criar_matricula_insert(a)
    \/ \E a \in Alunos : criar_matricula_retorno(a)

SpecConcorrente == InitConcorrente /\ [][NextConcorrente]_vars

\* an Aluno object and the calls that change its history
SemestresLancados == {"2024.2", "2025.1"}
KwargsDados == {<<<<"nota", 90>>>>, <<<<"nota", 110>>>>, <<<<"frequencia", 60>>>>,
                <<<<"nota", 90>>, <<"frequencia", 101>>>>,
                <<<<"nota", 50>>, <<"frequencia", 80>>>>}
HistoricosCarregados ==
    {<<>>, <<Registro("INP", 90, 80, 64, "APROVADO", "2024.2")>>}

InitHistorico ==
    /\ curso_prerequisito = SemPrerequisitos
    /\ InitTabelas /\ InitObjetos
    /\ pode_trancar = TRUE
    /\ av = AvInicial
    /\ last = LastInicial

NextHistorico ==
    \/ \E c \in {"POO", "BD"}, n \in {50, 90},
          sit \in {"APROVADO", "REPROVADO_POR_NOTA"}, sem \in SemestresLancados :
           AdicionarAoHistorico(c, n, 80, carga_horaria[c], sit, sem)
    \/ \E c \in {"POO", "BD"}, kw \in KwargsDados : AtualizarHistorico(c, kw)
    \/ \E c \in {"POO", "BD"} : RemoverDoHistorico(c)
    \/ \E h \in HistoricosCarregados : CarregarHistorico(h)

SpecHistorico == InitHistorico /\ [][NextHistorico]_vars

\* lists of students with two names and two CRs, and a configured top N
ListasDeAlunos ==
    UNION {{[i \in 1..n |-> [matricula |-> i, nome |-> nomes[i], cr |-> crs[i]]] :
               nomes \in [1..n -> 1..2], crs \in [1..n -> {500, 900}]} :
           n \in 0..MaxAlunosRanking}

InitRanking ==
    /\ curso_prerequisito = SemPrerequisitos
    /\ matricula = <<>>
    /\ next_id = 1
    /\ historico_aluno = [a \in Alunos |-> <<>>]
    /\ aluno_cr = [a \in Alunos |-> 0]
    /\ settings = default_config
    /\ proc = ProcInicial
    /\ rank \in {[RankInicial EXCEPT !.alunos = l, !.top_n_alunos = n] :
                    l \in ListasDeAlunos, n \in 1..MaxTopN}
    /\ InitObjetos
    /\ pode_trancar = TRUE
    /\ av = AvInicial
    /\ last = LastInicial

NextRanking == Ranking

SpecRanking == InitRanking /\ [][NextRanking]_vars

Spec == SpecEnroll

(***************************************************************************)
(* Properties of the enrollment service (SpecEnroll).                      *)
(***************************************************************************)
\* the in-progress rows of a section, and of a student in a period
EmCursoNaTurma(t) ==
    {i \in DOMAIN matricula :
        matricula[i].turma_id = t /\ matricula[i].situacao = SITUACAO_CURSANDO}

EmCursoDoAluno(a, periodo) ==
    {i \in DOMAIN matricula :
        /\ matricula[i].aluno_matricula = a
        /\ matricula[i].situacao = SITUACAO_CURSANDO
        /\ turma[matricula[i].turma_id].periodo = periodo}

\* do the slot maps of two sections overlap on some day
HorariosSobrepostos(t1, t2) ==
    \E d \in DOMAIN turma[t1].horarios \cap DOMAIN turma[t2].horarios :
        /\ turma[t1].horarios[d].inicio < turma[t2].horarios[d].fim
        /\ turma[t2].horarios[d].inicio < turma[t1].horarios[d].fim

\* C1: the number of in-progress enrollments of a section never exceeds the
\* section's seat capacity, whatever criar_matricula calls were made.
C1_VagasNuncaExcedidas ==
    \A t \in Turmas : Cardinality(EmCursoNaTurma(t)) <= turma[t].vagas

\* C2: criar_matricula succeeds only if every direct prerequisite of the
\* section's course is among the courses the student was approved in.
C2_MatriculaExigePrerequisitos ==
    (last.op = "criar_matricula" /\ last.result = "ok") =>
        get_prerequisitos(curso_prerequisito, turma[last.args[2]].curso_codigo)
            \subseteq get_cursos_aprovados(historico_aluno[last.args[1]])

\* C3: criar_matricula reports a schedule conflict only when the student has
\* another in-progress enrollment of the same period whose slots overlap the
\* candidate section's; an enrollment that reached a terminal status never
\* causes a conflict.
C3_ChoqueSoComMatriculaEmCurso ==
    (last.op = "criar_matricula" /\ last.result = "ChoqueHorario") =>
        \E i \in EmCursoDoAluno(last.args[1], turma[last.args[2]].periodo) :
            HorariosSobrepostos(matricula[i].turma_id, last.args[2])

\* the checks of an enrollment attempt that fail in the state the attempt is
\* made in, each named by the error it is to be reported with
ChecagensQueFalham(a, t) ==
    {e \in {"JaMatriculado", "SemVagas", "PrerequisitosFaltantes", "ChoqueHorario",
            "LimiteTurmas", "CursoDuplicado"} :
        CASE e = "JaMatriculado" ->
                 \E i \in DOMAIN matricula :
                     matricula[i].aluno_matricula = a /\ matricula[i].turma_id = t
          [] e = "SemVagas" ->
                 Cardinality(EmCursoNaTurma(t)) >= turma[t].vagas
          [] e = "PrerequisitosFaltantes" ->
                 ~(get_prerequisitos(curso_prerequisito, turma[t].curso_codigo)
                      \subseteq get_cursos_aprovados(historico_aluno[a]))
          [] e = "ChoqueHorario" ->
                 \E i \in EmCursoDoAluno(a, turma[t].periodo) :
                     HorariosSobrepostos(matricula[i].turma_id, t)
          [] e = "LimiteTurmas" ->
                 Cardinality(EmCursoDoAluno(a, turma[t].periodo))
                     >= settings.max_turmas_por_aluno
          [] e = "CursoDuplicado" ->
                 \E i \in EmCursoDoAluno(a, turma[t].periodo) :
                     turma[matricula[i].turma_id].curso_codigo = turma[t].curso_codigo}

\* the earliest of a set of failing checks, in the order of the pipeline
PrimeiraChecagem(falhas) ==
    LET ordem == <<"JaMatriculado", "SemVagas", "PrerequisitosFaltantes",
                   "ChoqueHorario", "LimiteTurmas", "CursoDuplicado">>
    IN  ordem[CHOOSE k \in 1..Len(ordem) :
                 /\ ordem[k] \in falhas
                 /\ \A j \in 1..(k - 1) : ordem[j] \notin falhas]

\* C10: an enrollment attempt that violates several checks at once reports
\* exactly one of them, the earliest in the order: duplicate enrollment, no
\* seat, missing prerequisites, schedule conflict, per-period cap, duplicate
\* course.
C10_PrimeiraViolacaoRelatada ==
    [][(/\ last'.op = "criar_matricula"
        /\ last'.args[1] \in Alunos
        /\ last'.args[2] \in Turmas
        /\ Cardinality(ChecagensQueFalham(last'.args[1], last'.args[2])) >= 2)
       => last'.result =
              PrimeiraChecagem(ChecagensQueFalham(last'.args[1], last'.args[2]))]_vars

\* C11: a criar_matricula that fails at any check leaves the stored
\* enrollments, the id counter, the students' histories and their CR exactly
\* as they were; a row is inserted only by a call that passed every check,
\* and then it is the one new in-progress row of that student and section.
C11_RejeicaoNaoAplicaNada ==
    [][last'.op = "criar_matricula" =>
          IF last'.result = "ok"
          THEN /\ matricula' = repo_create(matricula, next_id, last'.args[1], last'.args[2])
               /\ next_id' = next_id + 1
               /\ historico_aluno' = historico_aluno /\ aluno_cr' = aluno_cr
          ELSE /\ matricula' = matricula /\ next_id' = next_id
               /\ historico_aluno' = historico_aluno /\ aluno_cr' = aluno_cr]_vars

\* an attempt has been rejected by a late check while rows are stored
C11_RejeitadaComLinhas ==
    /\ last.op = "criar_matricula"
    /\ last.result \in {"ChoqueHorario", "KeyError"}
    /\ matricula # <<>>

\* does the student hold, in the section's period, an in-progress or approved
\* enrollment in another section of the section's course
TemCursoNoPeriodo(a, t) ==
    \E i \in DOMAIN matricula :
        /\ matricula[i].aluno_matricula = a
        /\ matricula[i].turma_id # t
        /\ matricula[i].situacao \in {SITUACAO_CURSANDO, SITUACAO_APROVADO}
        /\ turma[matricula[i].turma_id].periodo = turma[t].periodo
        /\ turma[matricula[i].turma_id].curso_codigo = turma[t].curso_codigo

\* C21: an enrollment attempt that passes the earlier checks is rejected as a
\* duplicate course exactly when the student holds, in the section's period, an
\* in-progress or approved enrollment in another section of the same course;
\* for a student who already has enrollments the check ends with a decision,
\* valid or duplicate course, and never with another error.
C21_CursoDuplicadoDecidido ==
    [][\A a \in Alunos, t \in Turmas :
          (/\ last'.op = "criar_matricula"
           /\ last'.args = <<a, t>>
           /\ ChecagensQueFalham(a, t) \cap {"JaMatriculado", "SemVagas",
                  "PrerequisitosFaltantes", "ChoqueHorario", "LimiteTurmas"} = {}) =>
              /\ last'.result \in {"ok", "CursoDuplicado"}
              /\ (last'.result = "CursoDuplicado") <=> TemCursoNoPeriodo(a, t)]_vars

\* C23: when the concurrent criar_matricula calls of different students on
\* one section have all ended, however their checks and inserts interleaved,
\* the section holds at most as many in-progress enrollments as it has seats.
C23_IntercalacaoNaoExcedeVagas ==
    (\A a \in Alunos : proc[a].pc = "fim") =>
        \A t \in Turmas :
            Cardinality({i \in EmCursoNaTurma(t) :
                            \E a \in Alunos : /\ proc[a].turma_id = t
                                              /\ matricula[i].aluno_matricula = a})
                <= turma[t].vagas

\* C20: an enrollment attempt is rejected as a duplicate exactly when the
\* student already has an enrollment in that section whose status is not
\* withdrawn; a student whose only enrollment in the section is withdrawn is
\* not rejected as a duplicate.
C20_DuplicadaSoSeNaoTrancada ==
    [][\A a \in Alunos, t \in Turmas :
          (last'.op = "criar_matricula" /\ last'.args = <<a, t>>) =>
              ((last'.result = "JaMatriculado") <=>
                  \E i \in DOMAIN matricula :
                      /\ matricula[i].aluno_matricula = a
                      /\ matricula[i].turma_id = t
                      /\ matricula[i].situacao # SITUACAO_TRANCADA)]_vars

\* C29: once lancar_nota_frequencia has succeeded with the outcome approved
\* for an enrollment in a section of course C, the student's record as it is
\* loaded from the tables holds the completion entry for C, with C among the
\* approved courses, and a CR that includes it.
C29_ConclusaoNoRegistroCarregado ==
    (/\ last.op = "lancar_nota_frequencia"
     /\ last.result = "ok"
     /\ matricula[last.args[1]].situacao = SITUACAO_APROVADO) =>
        LET a == matricula[last.args[1]].aluno_matricula
            c == turma[matricula[last.args[1]].turma_id].curso_codigo
        IN  /\ c \in get_cursos_aprovados(historico_aluno[a])
            /\ aluno_cr[a] = calcular_cr(historico_aluno[a])

(***************************************************************************)
(* Properties of the per-period cap (SpecLimite).                          *)
(***************************************************************************)
\* C19: an enrollment attempt that passes the checks made before the cap is
\* rejected by the cap exactly when the configured maximum is greater than 0
\* and the student's in-progress enrollments of the section's period already
\* number that maximum or more; with maximum 0 the cap never rejects.
C19_LimiteRejeitaExatamenteNoMaximo ==
    [][\A a \in Alunos, t \in Turmas :
          (/\ last'.op = "criar_matricula"
           /\ last'.args = <<a, t>>
           /\ ChecagensQueFalham(a, t) \cap {"JaMatriculado", "SemVagas",
                  "PrerequisitosFaltantes", "ChoqueHorario"} = {}) =>
              ((last'.result = "LimiteTurmas") <=>
                  (/\ settings.max_turmas_por_aluno > 0
                   /\ Cardinality(EmCursoDoAluno(a, turma[t].periodo))
                          >= settings.max_turmas_por_aluno))]_vars

(***************************************************************************)
(* Properties of the catalog service (SpecCatalog).                        *)
(***************************************************************************)
RECURSIVE PrerequisitosAte(_, _)
\* the courses reached from a course along at most n prerequisite edges
PrerequisitosAte(codigo, n) ==
    IF n = 0 THEN {}
    ELSE LET diretos == get_prerequisitos(curso_prerequisito, codigo)
         IN  diretos \cup UNION {PrerequisitosAte(p, n - 1) : p \in diretos}

\* C4: the prerequisite graph is acyclic in every reachable state: no course
\* is reached from itself along prerequisite edges, by a path of any length.
C4_GrafoAciclico ==
    \A c \in Cursos : c \notin PrerequisitosAte(c, Cardinality(Cursos))

\* C18: adicionar_prerequisito(A, A) on an existing course is rejected as a
\* self-reference, and adicionar_prerequisito(B, A) made while the edge A -> B
\* added by an earlier successful call is stored is rejected as a cycle; both
\* rejected calls leave the stored prerequisite edges as they were.
C18_AutoReferenciaECicloRejeitados ==
    [][\A c \in Cursos, p \in Cursos :
          (last'.op = "adicionar_prerequisito" /\ last'.args = <<c, p>>) =>
              /\ c = p =>
                    /\ last'.result = "MesmoCurso"
                    /\ curso_prerequisito' = curso_prerequisito
              /\ (c # p /\ curso_prerequisito[<<p, c>>] > 0) =>
                    /\ last'.result = "Ciclo"
                    /\ curso_prerequisito' = curso_prerequisito]_vars

\* witness of C18: adicionar_prerequisito("INP", "POO") has just been rejected
\* as a cycle while POO -> INP is stored
C18_CicloRejeitado ==
    /\ last.op = "adicionar_prerequisito"
    /\ last.args = <<"INP", "POO">>
    /\ last.result = "Ciclo"
    /\ curso_prerequisito[<<"POO", "INP">>] > 0
    /\ curso_prerequisito[<<"INP", "POO">>] = 0

\* C24: adicionar_prerequisito(course, prereq) made while prereq is already a
\* stored direct prerequisite of course fails with the duplicate-edge error
\* and stores no second row for the pair, so the table holds each
\* (course, prereq) pair at most once.
C24_ArestaDuplicadaRejeitada ==
    [][\A c \in Cursos, p \in Cursos :
          (/\ last'.op = "adicionar_prerequisito"
           /\ last'.args = <<c, p>>
           /\ curso_prerequisito[<<c, p>>] > 0) =>
              /\ last'.result = "JaPrerequisito"
              /\ curso_prerequisito'[<<c, p>>] <= 1]_vars

\* C25: remover_prerequisito(course, prereq) on an existing course raises
\* nothing: when prereq is not a prerequisite of course it returns false and
\* leaves the table as it was; when the edge is stored it removes that edge,
\* and no other, and returns true.
C25_RemocaoSemErro ==
    [][\A c \in Cursos, p \in Cursos :
          (last'.op = "remover_prerequisito" /\ last'.args = <<c, p>>) =>
              IF curso_prerequisito[<<c, p>>] = 0
              THEN /\ last'.result = "False"
                   /\ curso_prerequisito' = curso_prerequisito
              ELSE /\ last'.result = "ok"
                   /\ curso_prerequisito' =
                          [curso_prerequisito EXCEPT ![<<c, p>>] = 0]]_vars

(***************************************************************************)
(* Properties of the Matricula objects (SpecMat).                          *)
(***************************************************************************)
\* C5: a lancar_avaliacao made while the enrollment is not in progress fails
\* with the already-finalized error, whatever grade and attendance it is given.
C5_SegundoLancamentoRejeitado ==
    [][(/\ last'.op = "lancar_avaliacao"
        /\ mat[last'.args[1]].situacao # SITUACAO_CURSANDO)
       => last'.result = "JaFinalizada"]_vars

\* C7: once an enrollment's status is not in-progress, no operation changes
\* the status or makes the enrollment active again.
C7_TerminalNaoMuda ==
    [][\A m \in Mats :
          mat[m].situacao # SITUACAO_CURSANDO =>
              /\ mat'[m].situacao = mat[m].situacao
              /\ mat'[m].ativa = mat[m].ativa]_vars

\* C8: a rejected lancar_avaliacao on an enrollment that is already finalized
\* changes nothing: grade, attendance and status stay those of the first
\* call and the student's history keeps its single entry for the course.
C8_LancamentoRejeitadoNaoAltera ==
    [][(/\ last'.op = "lancar_avaliacao"
        /\ last'.result # "ok"
        /\ mat[last'.args[1]].situacao # SITUACAO_CURSANDO)
       => /\ mat'[last'.args[1]] = mat[last'.args[1]]
          /\ hist' = hist]_vars

\* the outcome of a grade and an attendance under the minimums 6.0 and 75
SituacaoEsperada(nota, frequencia) ==
    IF frequencia < 75 THEN "REPROVADO_POR_FREQUENCIA"
    ELSE IF nota < 60 THEN "REPROVADO_POR_NOTA"
    ELSE "APROVADO"

\* C9: a successful lancar_avaliacao(g, a) on an in-progress enrollment leaves
\* it with grade g and attendance a, not active, in a terminal status, with
\* its completion timestamp set, and appends exactly one entry to the
\* student's history: the section's course, g, a, the course's workload, the
\* derived outcome and the section's period.
C9_LancamentoRegistraConclusao ==
    [][(/\ last'.op = "lancar_avaliacao"
        /\ last'.result = "ok"
        /\ mat[last'.args[1]].situacao = SITUACAO_CURSANDO)
       => LET m == last'.args[1]
              g == last'.args[2]
              a == last'.args[3]
          IN  /\ mat'[m].nota = Some(g)
              /\ mat'[m].frequencia = Some(a)
              /\ ~mat'[m].ativa
              /\ mat'[m].situacao = SituacaoEsperada(g, a)
              /\ mat'[m].data_conclusao
              /\ hist' = Append(hist, Registro(mat_curso[m], g, a,
                                    carga_horaria[mat_curso[m]],
                                    SituacaoEsperada(g, a), mat_periodo[m]))]_vars

\* a successful lancar_avaliacao has finalized an enrollment and the history
\* holds its entry
C9_LancamentoFeito ==
    /\ last.op = "lancar_avaliacao"
    /\ last.result = "ok"
    /\ ~mat[last.args[1]].ativa
    /\ \E i \in 1..Len(hist) :
           /\ hist[i].codigo_curso = mat_curso[last.args[1]]
           /\ hist[i].nota = last.args[2]
           /\ hist[i].semestre = mat_periodo[last.args[1]]

RECURSIVE NotaVezesCargaAte(_, _), CargaAte(_, _)
\* over the first n entries of a history, those approved or failed by grade:
\* the sum of grade times workload, and the sum of workload
NotaVezesCargaAte(h, n) ==
    IF n = 0 THEN 0
    ELSE NotaVezesCargaAte(h, n - 1)
         + (IF h[n].situacao \in {"APROVADO", "REPROVADO_POR_NOTA"}
            THEN h[n].nota * h[n].carga_horaria ELSE 0)

CargaAte(h, n) ==
    IF n = 0 THEN 0
    ELSE CargaAte(h, n - 1)
         + (IF h[n].situacao \in {"APROVADO", "REPROVADO_POR_NOTA"}
            THEN h[n].carga_horaria ELSE 0)

\* is c (hundredths of a point) the weighted mean of the history's grades
\* (tenths of a point) rounded to two decimals, or 0 with nothing to average
CrDoHistorico(c, h) ==
    LET soma == NotaVezesCargaAte(h, Len(h))
        carga == CargaAte(h, Len(h))
        erro == c * carga - 10 * soma
    IN  IF carga = 0 THEN c = 0
        ELSE 2 * erro <= carga /\ -2 * erro <= carga

\* C15: the CR that Aluno.calcular_cr and AlunoRepository.calcular_cr_aluno
\* compute is the workload-weighted mean of the grades, rounded to two
\* decimals, over exactly the entries approved or failed by grade, and 0
\* when there is none; entries in any other situation never change it.
C15_CrMediaPonderada ==
    /\ last.op = "calcular_cr" => (cr = last.result /\ CrDoHistorico(cr, hist))
    /\ last.op = "atualizar_cr_aluno" =>
           CrDoHistorico(aluno_cr["A1"], historico_aluno["A1"])

\* both CRs were computed as 7.67 from a history of grade 9.0 over 64 hours,
\* grade 5.0 over 32 hours and a third entry that does not count
C15_CrCalculado ==
    /\ cr = 767
    /\ aluno_cr["A1"] = 767
    /\ Len(hist) = 3
    /\ \E i \in 1..Len(hist) : hist[i].situacao = "REPROVADO_POR_FREQUENCIA"

RegraDeChoque(a, b) ==
    \E dia \in (DOMAIN a) \cap (DOMAIN b) :
        ~(a[dia].fim <= b[dia].inicio \/ b[dia].fim <= a[dia].inicio)

\* the verdict of Oferta.verificar_choque follows the half-open rule and is
\* the same in both directions
OfertaSegueRegra ==
    /\ (choque.oferta_ab = "choque") = RegraDeChoque(choque.a, choque.b)
    /\ choque.oferta_ab = choque.oferta_ba

\* C17: two slot maps overlap exactly when some common weekday has intervals
\* where neither ends at or before the start of the other, the verdict is
\* symmetric, and the check of the enrollment validation gives the same verdict
\* as Oferta.verificar_choque for every pair of slot maps.
C17_ChecagensDeChoqueConcordam ==
    choque.feito =>
        /\ OfertaSegueRegra
        /\ choque.validacao = choque.oferta_ab

\* C28: an enrollment whose status is in-progress has neither grade nor
\* attendance set: a lancar_avaliacao made on an in-progress enrollment that
\* has neither, whether it succeeds or is rejected, does not leave the
\* enrollment in progress with its grade or its attendance set.
C28_EmCursoSemNotaNemFrequencia ==
    [][\A m \in Mats :
          (/\ last'.op = "lancar_avaliacao"
           /\ last'.args[1] = m
           /\ mat[m].situacao = SITUACAO_CURSANDO
           /\ mat[m].nota = None /\ mat[m].frequencia = None
           /\ mat'[m].situacao = SITUACAO_CURSANDO) =>
              (mat'[m].nota = None /\ mat'[m].frequencia = None)]_vars

(***************************************************************************)
(* Properties of the Aluno object's history (SpecHistorico).               *)
(***************************************************************************)
\* the entries of a history for a course and a period
RegistrosDe(h, codigo_curso, semestre) ==
    {i \in 1..Len(h) : h[i].codigo_curso = codigo_curso /\ h[i].semestre = semestre}

\* C26: adicionar_ao_historico with valid values for a course that already has
\* an entry succeeds: if the entry is of the same period the history holds one
\* entry for that (course, period) afterwards, and if it is of another period
\* the new entry is accepted beside it.
C26_RegistroSubstituido ==
    [][\A c \in Cursos, sem \in SemestresLancados :
          (/\ last'.op = "adicionar_ao_historico"
           /\ last'.args = <<c, sem>>
           /\ CursoNoHistorico(hist, c)) =>
              /\ last'.result = "ok"
              /\ Cardinality(RegistrosDe(hist', c, sem)) = 1]_vars

\* C27: after every call that changes the history, whether it returned or
\* raised, the CR the student holds is the CR formula of the history as the
\* call left it.
C27_CrAcompanhaHistorico ==
    last.op \in {"adicionar_ao_historico", "atualizar_historico",
                 "remover_do_historico", "carregar_historico"}
        => cr = calcular_cr(hist)

(***************************************************************************)
(* Properties of the ranking (SpecRanking).                                *)
(***************************************************************************)
\* C30: ranking returns at most top_n_alunos students, ordered by CR from the
\* highest to the lowest with ties in alphabetical order of the name, and no
\* student left out has a higher CR than a student returned.
C30_RankingDosMelhores ==
    rank.feito =>
        LET r == rank.resultado
            fora == {i \in 1..Len(rank.alunos) :
                        \A k \in 1..Len(r) : r[k].matricula # rank.alunos[i].matricula}
        IN  /\ Len(r) <= rank.top_n_alunos
            /\ \A i, j \in 1..Len(r) :
                   i < j => \/ r[i].cr > r[j].cr
                            \/ (r[i].cr = r[j].cr /\ r[i].nome <= r[j].nome)
            /\ \A i \in fora, k \in 1..Len(r) : rank.alunos[i].cr <= r[k].cr

(***************************************************************************)
(* Properties of the Turma object (SpecTurma).                             *)
(***************************************************************************)
\* C12: while the section is not closed, the seats available plus the seats
\* taken equal the capacity, after any additions, removals and capacity
\* changes.
C12_VagasSomamCapacidade ==
    obj_turma.status = TRUE =>
        vagas_disponiveis(obj_turma) + vagas_ocupadas(obj_turma) = obj_turma.vagas

\* C13: the seats taken of a section are the enrollments registered in it
\* whose status is in-progress; a finalized or withdrawn enrollment occupies
\* no seat.
C13_VagasOcupadasSoEmCurso ==
    vagas_ocupadas(obj_turma) =
        Cardinality({i \in 1..Len(obj_turma.matriculas) :
                        mat[obj_turma.matriculas[i]].situacao = SITUACAO_CURSANDO})

\* C22: a section that has just been force-closed by fechar is still closed
\* after an enrollment is added to it or removed from it: the force-close
\* survives the recomputation of the status.
C22_FechamentoSobrevive ==
    [][(/\ last.op = "fechar"
        /\ last'.op \in {"adicionar_matricula", "remover_matricula"})
          => obj_turma'.status = FALSE]_vars

(***************************************************************************)
(* Properties of the status derivations (SpecAvaliar).                     *)
(***************************************************************************)
\* C6: for every in-range grade and attendance, Matricula._atualizar_situacao,
\* RegraAprovacao.avaliar and MatriculaRepository.atualizar_nota_frequencia
\* give the same status: attendance below the minimum is failed by
\* attendance, otherwise a grade below the minimum is failed by grade,
\* otherwise approved.
C6_SituacaoFrequenciaPrimeiro ==
    av.feito =>
        /\ av.matricula = SituacaoEsperada(av.nota, av.frequencia)
        /\ av.regra = SituacaoEsperada(av.nota, av.frequencia)
        /\ av.repositorio = SituacaoEsperada(av.nota, av.frequencia)

\* grade 7.0 with attendance 60 has been evaluated: failed by attendance
C6_NotaBoaFrequenciaBaixa ==
    /\ av.feito
    /\ av.nota = 70
    /\ av.frequencia = 60
    /\ av.matricula = "REPROVADO_POR_FREQUENCIA"
    /\ av.regra = "REPROVADO_POR_FREQUENCIA"
    /\ av.repositorio = "REPROVADO_POR_FREQUENCIA"

====
